---- MODULE Spec2Model ----
(***************************************************************************)
(* Model of televideditor.py: the per-chat session store (user_data under  *)
(* user_data_lock), the Telegram handlers that move a session through      *)
(* downloading -> awaiting_caption -> awaiting_fade_choice, the background *)
(* sweeper, and the isolated render process started by a fade choice.      *)
(*                                                                         *)
(* Every "with user_data_lock:" block is one atomic action.  Code between  *)
(* two locked blocks that touches no shared state is folded into the       *)
(* action that precedes or follows it.  Front-end calls (bot.reply_to,     *)
(* bot.edit_message_text, ...) may raise; that is modelled wherever the    *)
(* exception changes the control flow of the handler.                      *)
(***************************************************************************)
EXTENDS Integers, Sequences, FiniteSets, Bags, TLC

VARIABLES
  user_data,   \* chat id -> session record (NoSession when the key is absent)
  files,       \* paths that exist on disk
  now,         \* time.time()
  handlers,    \* bag of handler invocations running in the bot's worker threads
  tasks,       \* bag of render processes started by handle_fade_choice
  updates,     \* number of updates received so far, per kind
  nextSid,     \* history: identity given to the next session dict created
  sent,        \* history: <<chat, message>> the handlers issued to the front end
  dlFail,      \* history: sessions whose download failed and whose handler ended
  acc,         \* history: per chat, the session last accepted by a fade choice
  ev           \* history: per chat, what the sweeper evicted and what followed

vars == <<user_data, files, now, handlers, tasks, updates, nextSid, sent,
          dlFail, acc, ev>>

----------------------------------------------------------------------------
(* Program constants *)

SESSION_TIMEOUT == 1800
SNIPPET_LEN == 1000      \* error_snippet = (...)[-1000:]
COMP_WIDTH == 1080
COMP_HEIGHT == 1920
IMAGE_DURATION == 8
FADE_IN_DURATION == 6
MEDIA_Y_OFFSET == 100
CAPTION_V_PADDING == 37
CAPTION_FONT_SIZE == 55
CAPTION_LINE_SPACING == 12

(* Bounds of the model *)

MaxMedia == 2        \* media updates received
MaxText == 1         \* text updates received
MaxFade == 2         \* fade-choice callbacks received
MaxInFlight == 2     \* handler invocations running at once
MaxTicks == 2        \* clock advances, each of SESSION_TIMEOUT seconds
MaxProcs == 1        \* render processes running at once (SpecRender)

Chats == {1, 2}
(* a Telegram file id names one uploaded file, a photo or a video *)
Media == {[file_id |-> "f1", media_type |-> "image"],
          [file_id |-> "f2", media_type |-> "video"]}
Captions == {"hello"}

(* A string of diagnostics is the range first .. last of the character     *)
(* positions of a named text, so that a slice shows which characters it    *)
(* kept; the empty string has last < first.                                *)
Str(text, n) == [text |-> text, first |-> 1, last |-> n]
StrLen(x) == x.last - x.first + 1
NoStr == Str("None", 0)
(* what the compositor wrote to its error stream *)
Stderrs == {Str("stderr", 0), Str("stderr", 3), Str("stderr", SNIPPET_LEN + 1)}
NoStderrOutput == Str("No stderr output.", 17)

(* what a probe of each file returns: width, height, and for a video its   *)
(* duration in seconds                                                     *)
Footage == [f1 |-> [width |-> 600, height |-> 800, duration |-> 0],
            f2 |-> [width |-> 1920, height |-> 1080, duration |-> 10]]
(* lines of each caption after textwrap.wrap(line, width=30) *)
CaptionLines == [hello |-> 1]

(* probe results and caption sizes the planner is run on *)
Widths == {7, 16, 600, 800, 1080, 1920}
Heights == {9, 533, 800, 1080, 1920}
Durations == {3, 10}
MaxLines == 2

(* ids the deployment API can return for the latest deployment *)
DeploymentIds == {"d1", "d2"}

----------------------------------------------------------------------------
(* Paths *)

NoPath == <<"None", "None", 0>>
save_path(c, fid) == <<"downloads", fid, c>>
caption_image_path(c) == <<"outputs", "caption", c>>
output_filepath(c) == <<"outputs", "output", c>>
frame_path(c) == <<"outputs", "frame", c>>

(* cleanup_files: every listed path that exists is removed *)
cleanup_files(fs, file_list) == fs \ file_list

----------------------------------------------------------------------------
(* Records *)

NoSession == [state |-> "absent", timestamp |-> 0, media_path |-> NoPath,
              media_type |-> "None", caption_text |-> "None", sid |-> 0]

NewHandler == [kind |-> "none", chat |-> 0, pc |-> "none", file_id |-> "None",
               media_type |-> "None", text |-> "None", sid |-> 0]

NewTask == [pc |-> "probe", chat |-> 0, media_path |-> NoPath,
            media_type |-> "None", caption_text |-> "None",
            apply_fade |-> FALSE, files_to_clean |-> {}, ffmpeg |-> "none",
            frame |-> "none", frame_src |-> NoPath, upload |-> "none",
            sub_frame |-> NoPath, msgs |-> {}, made |-> {}, stop |-> << >>,
            stderr |-> NoStr, error_snippet |-> NoStr, sid |-> 0,
            media_w |-> 0, media_h |-> 0, final_duration |-> 0,
            caption_height |-> 0, scaled_media_h |-> 0, media_y_pos |-> 0,
            caption_y_pos |-> 0, filter_complex |-> << >>, map_args |-> << >>]

NoEv == [state |-> "none", fresh |-> FALSE]
NoAcc == [sid |-> 0, n |-> 0]

Add(bag, x) == bag (+) SetToBag({x})
Remove(bag, x) == bag (-) SetToBag({x})
Replace(bag, x, y) == Add(Remove(bag, x), y)

Running == BagToSet(handlers)
Procs == BagToSet(tasks)

----------------------------------------------------------------------------
Init ==
  /\ user_data = [c \in Chats |-> NoSession]
  /\ files = {}
  /\ now = 0
  /\ handlers = EmptyBag
  /\ tasks = EmptyBag
  /\ updates = [media |-> 0, text |-> 0, fade |-> 0]
  /\ nextSid = 1
  /\ sent = {}
  /\ dlFail = {}
  /\ acc = [c \in Chats |-> NoAcc]
  /\ ev = [c \in Chats |-> NoEv]

----------------------------------------------------------------------------
(* The clock *)

Tick ==
  /\ now < MaxTicks * SESSION_TIMEOUT
  /\ now' = now + SESSION_TIMEOUT
  /\ UNCHANGED <<user_data, files, handlers, tasks, updates, nextSid, sent,
                 dlFail, acc, ev>>

----------------------------------------------------------------------------
(* handle_media.  Its filter (content type) reads no shared state, so the  *)
(* arrival of the update and the first locked block are one action.        *)

(* first locked block: the busy guard, else a new session dict *)
handle_media_lock(c, media) ==
  /\ updates.media < MaxMedia
  /\ updates' = [updates EXCEPT !.media = @ + 1]
  /\ IF user_data[c].state \in {"downloading", "processing"}
     THEN /\ sent' = sent \cup {<<c, "busy">>}
          /\ UNCHANGED <<user_data, nextSid, ev, handlers>>
     ELSE /\ BagCardinality(handlers) < MaxInFlight
          /\ user_data' = [user_data EXCEPT ![c] =
                             [NoSession EXCEPT !.state = "downloading",
                                               !.timestamp = now,
                                               !.sid = nextSid]]
          /\ nextSid' = nextSid + 1
          /\ handlers' = Add(handlers,
                             [NewHandler EXCEPT !.kind = "media", !.chat = c,
                                                !.pc = "download",
                                                !.file_id = media.file_id,
                                                !.media_type = media.media_type,
                                                !.sid = nextSid])
          /\ ev' = [ev EXCEPT ![c].fresh = (ev[c].state # "none")]
          /\ UNCHANGED sent
  /\ UNCHANGED <<files, now, tasks, dlFail, acc>>

(* the except block of a failed download: report the error, then the     *)
(* locked delete; when the report itself raises the handler ends without   *)
(* the delete.  Nothing shared is touched between the failure and the      *)
(* delete, so they are one action.                                         *)
ExceptDownload(m, reportOk) ==
  /\ handlers' = Remove(handlers, m)
  /\ dlFail' = dlFail \cup {m.sid}
  /\ IF reportOk
     THEN /\ sent' = sent \cup {<<m.chat, "dl_error">>}
          /\ user_data' = [user_data EXCEPT ![m.chat] = NoSession]
     ELSE UNCHANGED <<sent, user_data>>

(* the except block entered from the second locked block (KeyError, or the *)
(* edit after the update raises): the delete is a later locked block       *)
ExceptCommit(m, reportOk) ==
  /\ UNCHANGED dlFail
  /\ IF reportOk
     THEN /\ sent' = sent \cup {<<m.chat, "dl_error">>}
          /\ handlers' = Replace(handlers, m, [m EXCEPT !.pc = "del"])
     ELSE /\ handlers' = Remove(handlers, m)
          /\ UNCHANGED sent

(* second locked block: user_data[chat_id].update(...), then the edit *)
handle_media_commit(m) ==
  LET c == m.chat IN
  IF user_data[c] = NoSession
  THEN \* KeyError
       /\ \E reportOk \in BOOLEAN : ExceptCommit(m, reportOk)
       /\ UNCHANGED user_data
  ELSE /\ user_data' = [user_data EXCEPT ![c] =
                          [@ EXCEPT !.media_path = save_path(c, m.file_id),
                                    !.media_type = m.media_type,
                                    !.state = "awaiting_caption",
                                    !.timestamp = now]]
       /\ \/ /\ handlers' = Remove(handlers, m)
             /\ UNCHANGED <<sent, dlFail>>
          \/ \* bot.edit_message_text raises inside the try block
             \E reportOk \in BOOLEAN : ExceptCommit(m, reportOk)

(* "Downloading..." reply, bot.get_file, the streamed download and, when   *)
(* the file is complete, the second locked block                           *)
handle_media_download(m) ==
  LET p == save_path(m.chat, m.file_id) IN
  /\ m.kind = "media" /\ m.pc = "download"
  /\ \/ \* bot.reply_to raises outside the try block: the handler ends
        /\ handlers' = Remove(handlers, m)
        /\ UNCHANGED <<files, sent, dlFail, user_data>>
     \/ \* the file is written completely
        /\ files' = files \cup {p}
        /\ handle_media_commit(m)
     \/ \* get_file or the request fails before the file is opened
        /\ \E reportOk \in BOOLEAN : ExceptDownload(m, reportOk)
        /\ UNCHANGED files
     \/ \* the stream breaks after part of the file was written
        /\ \E reportOk \in BOOLEAN : ExceptDownload(m, reportOk)
        /\ files' = files \cup {p}
  /\ UNCHANGED <<now, tasks, updates, nextSid, acc, ev>>

(* third locked block, in the except clause *)
handle_media_del(m) ==
  /\ m.kind = "media" /\ m.pc = "del"
  /\ user_data' = [user_data EXCEPT ![m.chat] = NoSession]
  /\ handlers' = Remove(handlers, m)
  /\ UNCHANGED <<files, now, tasks, updates, nextSid, sent, dlFail, acc, ev>>

----------------------------------------------------------------------------
(* Text messages.  The filter of handle_text reads user_data without the   *)
(* lock when the update is dispatched; the handler body runs later in a    *)
(* worker thread, and its locked block tests only that the key exists.     *)

(* filter true: the message is given to handle_text *)
ReceiveText(c, txt) ==
  /\ updates.text < MaxText
  /\ BagCardinality(handlers) < MaxInFlight
  /\ user_data[c].state = "awaiting_caption"
  /\ handlers' = Add(handlers, [NewHandler EXCEPT !.kind = "text", !.chat = c,
                                                  !.pc = "lock", !.text = txt])
  /\ updates' = [updates EXCEPT !.text = @ + 1]
  /\ UNCHANGED <<user_data, files, now, tasks, nextSid, sent, dlFail, acc, ev>>

(* filter false: the catch-all handler only replies *)
handle_other_messages(c) ==
  /\ updates.text < MaxText
  /\ user_data[c].state # "awaiting_caption"
  /\ updates' = [updates EXCEPT !.text = @ + 1]
  /\ UNCHANGED <<user_data, files, now, handlers, tasks, nextSid, sent, dlFail,
                 acc, ev>>

handle_text(m) ==
  LET c == m.chat IN
  /\ m.kind = "text" /\ m.pc = "lock"
  /\ IF user_data[c] = NoSession
     THEN UNCHANGED user_data
     ELSE user_data' = [user_data EXCEPT ![c] =
                          [@ EXCEPT !.caption_text = m.text,
                                    !.state = "awaiting_fade_choice",
                                    !.timestamp = now]]
  /\ handlers' = Remove(handlers, m)
  /\ UNCHANGED <<files, now, tasks, updates, nextSid, sent, dlFail, acc, ev>>

----------------------------------------------------------------------------
(* handle_fade_choice.  Its filter reads no shared state and the code      *)
(* after the locked block touches none, so the whole handler is one        *)
(* action: rejected, or session popped and then either an exception        *)
(* before p.start() or the render process started.                         *)

(* the process created by multiprocessing.Process(...).start(), at the    *)
(* first statement of isolated_video_processing_task                       *)
StartedTask(c, session, apply_fade) ==
  [NewTask EXCEPT !.chat = c,
                  !.media_path = session.media_path,
                  !.media_type = session.media_type,
                  !.caption_text = session.caption_text,
                  !.apply_fade = apply_fade,
                  !.files_to_clean = {session.media_path},
                  !.sid = session.sid]

handle_fade_choice(c, apply_fade) ==
  LET session == user_data[c] IN
  /\ updates.fade < MaxFade
  /\ updates' = [updates EXCEPT !.fade = @ + 1]
  /\ IF session = NoSession \/ session.state # "awaiting_fade_choice"
     THEN /\ sent' = sent \cup {<<c, "expired">>}
          /\ acc' = [acc EXCEPT ![c].n = IF acc[c].sid # 0 THEN @ + 1 ELSE @]
          /\ UNCHANGED <<user_data, tasks>>
     ELSE /\ user_data' = [user_data EXCEPT ![c] = NoSession]
          /\ acc' = [acc EXCEPT ![c] = [sid |-> session.sid, n |-> 1]]
          /\ UNCHANGED sent
          /\ \/ \* a front-end call or p.start() raises
                UNCHANGED tasks
             \/ \* session_to_process['media_path'] etc. exist
                /\ session.media_path # NoPath
                /\ session.caption_text # "None"
                /\ tasks' = Add(tasks, StartedTask(c, session, apply_fade))
  /\ UNCHANGED <<files, now, handlers, nextSid, dlFail, ev>>

----------------------------------------------------------------------------
(* The sweeper *)

(* variant: a session exactly SESSION_TIMEOUT old already counts as stale *)
IsStaleInclusive(c) ==
  /\ user_data[c] # NoSession
  /\ now - user_data[c].timestamp >= SESSION_TIMEOUT

IsStale(c) ==
  /\ user_data[c] # NoSession
  /\ now - user_data[c].timestamp > SESSION_TIMEOUT

cleanup_stale_sessions ==
  LET stale_users == {c \in Chats : IsStale(c)} IN
  /\ user_data' = [c \in Chats |->
                     IF c \in stale_users THEN NoSession ELSE user_data[c]]
  /\ files' = cleanup_files(files, {user_data[c].media_path : c \in stale_users})
  /\ ev' = [c \in Chats |->
              IF c \in stale_users
              THEN [state |-> user_data[c].state, fresh |-> FALSE]
              ELSE ev[c]]
  /\ UNCHANGED <<now, handlers, tasks, updates, nextSid, sent, dlFail, acc>>

----------------------------------------------------------------------------
(* isolated_video_processing_task, one action per external call *)

Step(t, u) ==
  /\ tasks' = Replace(tasks, t, u)
  /\ UNCHANGED <<user_data, now, handlers, updates, nextSid, sent, dlFail, acc, ev>>

(* get_media_dimensions: PIL for an image, with the fixed duration;        *)
(* ffprobe for a video                                                     *)
get_media_dimensions(media_path, media_type) ==
  LET probed == Footage[media_path[2]] IN
  IF media_type = "image"
  THEN [probed EXCEPT !.duration = IMAGE_DURATION]
  ELSE probed

(* create_caption_image: rect_height = text_height + 2 * CAPTION_V_PADDING, *)
(* the text box being taken as one font size per line plus the spacing     *)
rect_height(lines) ==
  lines * CAPTION_FONT_SIZE + (lines - 1) * CAPTION_LINE_SPACING
    + 2 * CAPTION_V_PADDING

(* get_media_dimensions and create_caption_image *)
task_prepare(t) ==
  LET cap == caption_image_path(t.chat)
      dims == get_media_dimensions(t.media_path, t.media_type)
  IN
  /\ t.pc = "probe"
  /\ \/ \* the probe returns nothing or raises, or the caption image raises
        /\ Step(t, [t EXCEPT !.pc = "finally", !.msgs = @ \cup {"unexpected"}])
        /\ UNCHANGED files
     \/ /\ t.media_path \in files
        /\ files' = files \cup {cap}
        /\ Step(t, [t EXCEPT !.pc = "plan",
                             !.media_w = dims.width,
                             !.media_h = dims.height,
                             !.final_duration = dims.duration,
                             !.caption_height =
                                rect_height(CaptionLines[t.caption_text]),
                             !.files_to_clean = @ \cup {cap},
                             !.made = @ \cup {cap}])

(* The planner.  scale_ratio is a float and int() truncates: for positive  *)
(* sizes int(media_h * scale_ratio) is the integer quotient below.         *)
scaled_media_h(media_w, media_h) == (media_h * COMP_WIDTH) \div media_w

(* Vertical positions can end in .5, so they are kept in half pixels:      *)
(* media_y_pos = (COMP_HEIGHT / 2 - scaled_media_h / 2) + MEDIA_Y_OFFSET   *)
media_y_pos(scaled_h) == COMP_HEIGHT - scaled_h + 2 * MEDIA_Y_OFFSET

(* caption_y_pos = media_y_pos - caption_height + 1, in half pixels *)
caption_y_pos(media_y, caption_height) == media_y - 2 * caption_height + 2

(* one stage of the filter graph: "[ins...]filter=args[out]" *)
Stage(ins, filter, args, out) ==
  [ins |-> ins, filter |-> filter, args |-> args, out |-> out]

(* variant: with fade the background overlay still takes the scaled media *)
filter_parts_shared(apply_fade, scaled_h, duration, media_y, caption_y) ==
  LET scale == <<Stage(<<"1:v">>, "scale,setpts", <<COMP_WIDTH, -1>>,
                       "scaled_media")>>
      fade == IF apply_fade
              THEN <<Stage(<< >>, "color,format,fade",
                           <<COMP_WIDTH, scaled_h + 1, duration, FADE_IN_DURATION>>,
                           "fade_layer"),
                     Stage(<<"scaled_media", "fade_layer">>, "overlay", <<0, 0>>,
                           "media_with_fade")>>
              ELSE << >>
  IN scale \o fade \o
     <<Stage(<<"0:v", "scaled_media">>, "overlay", <<media_y>>, "bg_with_media"),
       Stage(<<"bg_with_media", "2:v">>, "overlay", <<caption_y>>, "final_v")>>

(* variant: with fade the caption position is derived from the cover *)
filter_parts_recaptioned(apply_fade, scaled_h, duration, media_y, caption_y) ==
  LET scale == <<Stage(<<"1:v">>, "scale,setpts", <<COMP_WIDTH, -1>>,
                       "scaled_media")>>
      fade == IF apply_fade
              THEN <<Stage(<< >>, "color,format,fade",
                           <<COMP_WIDTH, scaled_h + 1, duration, FADE_IN_DURATION>>,
                           "fade_layer"),
                     Stage(<<"scaled_media", "fade_layer">>, "overlay", <<0, 0>>,
                           "media_with_fade")>>
              ELSE << >>
      media_layer == IF apply_fade THEN "media_with_fade" ELSE "scaled_media"
  IN scale \o fade \o
     <<Stage(<<"0:v", media_layer>>, "overlay", <<media_y>>, "bg_with_media"),
       Stage(<<"bg_with_media", "2:v">>, "overlay",
             <<IF apply_fade THEN caption_y - 2 ELSE caption_y>>, "final_v")>>

(* filter_parts: the scaled media, with fade the black cover and its       *)
(* overlay on the media, then the media on the background and the caption  *)
(* on top                                                                  *)
filter_parts(apply_fade, scaled_h, duration, media_y, caption_y) ==
  LET scale == <<Stage(<<"1:v">>, "scale,setpts", <<COMP_WIDTH, -1>>,
                       "scaled_media")>>
      fade == IF apply_fade
              THEN <<Stage(<< >>, "color,format,fade",
                           <<COMP_WIDTH, scaled_h + 1, duration, FADE_IN_DURATION>>,
                           "fade_layer"),
                     Stage(<<"scaled_media", "fade_layer">>, "overlay", <<0, 0>>,
                           "media_with_fade")>>
              ELSE << >>
      media_layer == IF apply_fade THEN "media_with_fade" ELSE "scaled_media"
  IN scale \o fade \o
     <<Stage(<<"0:v", media_layer>>, "overlay", <<media_y>>, "bg_with_media"),
       Stage(<<"bg_with_media", "2:v">>, "overlay", <<caption_y>>, "final_v")>>

(* filter_complex: for a video the audio stage is added at the end *)
filter_complex(media_type, parts) ==
  IF media_type = "video"
  THEN Append(parts, Stage(<<"1:a">>, "asetpts", << >>, "final_a"))
  ELSE parts

map_args(media_type) ==
  IF media_type = "video" THEN <<"final_v", "final_a">> ELSE <<"final_v">>

(* lines 401-448: the geometry and the compositor command *)
task_plan(t) ==
  LET scaled_h == scaled_media_h(t.media_w, t.media_h)
      media_y == media_y_pos(scaled_h)
      caption_y == caption_y_pos(media_y, t.caption_height)
  IN
  /\ t.pc = "plan"
  /\ UNCHANGED files
  /\ Step(t, [t EXCEPT
                !.pc = "ffmpeg",
                !.scaled_media_h = scaled_h,
                !.media_y_pos = media_y,
                !.caption_y_pos = caption_y,
                !.filter_complex =
                   filter_complex(t.media_type,
                                  filter_parts(t.apply_fade, scaled_h,
                                               t.final_duration, media_y,
                                               caption_y)),
                !.map_args = map_args(t.media_type)])

(* variant: the return code of the compositor is not tested *)
task_ffmpeg_unchecked(t) ==
  LET out == output_filepath(t.chat) IN
  /\ t.pc = "ffmpeg"
  /\ \E code \in {"ok", "nonzero"} :
        /\ files' = files \cup {out}
        /\ Step(t, [t EXCEPT !.pc = "extract", !.ffmpeg = code,
                             !.files_to_clean = @ \cup {out},
                             !.made = @ \cup {out},
                             !.msgs = @ \cup {"preparing"}])

(* (e.stderr or "No stderr output.")[-1000:] *)
error_snippet(stderr) ==
  LET x == IF StrLen(stderr) = 0 THEN NoStderrOutput ELSE stderr
  IN [x EXCEPT !.first = IF StrLen(x) > SNIPPET_LEN
                         THEN x.last - SNIPPET_LEN + 1 ELSE x.first]

(* subprocess.run(command, timeout=300) and the return code test *)
task_ffmpeg(t) ==
  LET out == output_filepath(t.chat) IN
  /\ t.pc = "ffmpeg"
  /\ \/ /\ t.media_path \in files /\ caption_image_path(t.chat) \in files
        /\ files' = files \cup {out}
        /\ Step(t, [t EXCEPT !.pc = "extract", !.ffmpeg = "ok",
                             !.files_to_clean = @ \cup {out},
                             !.made = @ \cup {out},
                             !.msgs = @ \cup {"preparing"}])
     \/ \E partial \in BOOLEAN, stderr \in Stderrs :
        /\ files' = IF partial THEN files \cup {out} ELSE files
        /\ Step(t, [t EXCEPT !.pc = "finally", !.ffmpeg = "nonzero",
                             !.made = IF partial THEN @ \cup {out} ELSE @,
                             !.stderr = stderr,
                             !.error_snippet = error_snippet(stderr),
                             !.msgs = @ \cup {"ffmpeg_error"}])
     \/ \E partial \in BOOLEAN :
        /\ files' = IF partial THEN files \cup {out} ELSE files
        /\ Step(t, [t EXCEPT !.pc = "finally", !.ffmpeg = "timeout",
                             !.made = IF partial THEN @ \cup {out} ELSE @,
                             !.msgs = @ \cup {"unexpected"}])

(* extract_frame_from_video(output_filepath, ...) *)
extract_frame_from_video(t, video_path) ==
  LET fr == frame_path(t.chat) IN
  \/ /\ video_path \in files
     /\ files' = files \cup {fr}
     /\ Step(t, [t EXCEPT !.pc = "upload", !.frame = "ok",
                          !.frame_src = video_path,
                          !.files_to_clean = @ \cup {fr},
                          !.made = @ \cup {fr}])
  \/ \E partial \in BOOLEAN :
     /\ files' = IF partial THEN files \cup {fr} ELSE files
     /\ Step(t, [t EXCEPT !.pc = "finally", !.frame = "failed",
                          !.frame_src = video_path,
                          !.made = IF partial THEN @ \cup {fr} ELSE @,
                          !.msgs = @ \cup {"not_prepared"}])

(* variant: the frame is taken from the input media *)
task_extract_from_input(t) ==
  /\ t.pc = "extract"
  /\ extract_frame_from_video(t, t.media_path)

task_extract(t) ==
  /\ t.pc = "extract"
  /\ extract_frame_from_video(t, output_filepath(t.chat))

(* upload_and_process(chat_id, output_filepath, frame_path) *)
upload_and_process(t) ==
  /\ t.pc = "upload"
  /\ UNCHANGED files
  /\ IF frame_path(t.chat) \notin files \/ output_filepath(t.chat) \notin files
     THEN \* open() raises OSError, which only the task's handler catches
          Step(t, [t EXCEPT !.pc = "finally", !.msgs = @ \cup {"unexpected"}])
     ELSE \/ Step(t, [t EXCEPT !.pc = "finally", !.upload = "ok",
                               !.sub_frame = frame_path(t.chat),
                               !.msgs = @ \cup {"success"}])
          \/ Step(t, [t EXCEPT !.pc = "finally", !.upload = "failed",
                               !.sub_frame = frame_path(t.chat),
                               !.msgs = @ \cup {"upload_failed"}])

(* finally: cleanup_files(files_to_clean).  Nothing after this statement   *)
(* reads what the try block left behind, so only the arguments are kept.   *)
(* variant: the finally block goes to the shutdown without cleanup_files *)
task_finally_uncleaned(t) ==
  /\ t.pc = "finally"
  /\ UNCHANGED files
  /\ Step(t, [NewTask EXCEPT !.pc = "stop", !.chat = t.chat, !.sid = t.sid,
                             !.media_path = t.media_path,
                             !.media_type = t.media_type,
                             !.caption_text = t.caption_text,
                             !.apply_fade = t.apply_fade])

task_finally(t) ==
  /\ t.pc = "finally"
  /\ files' = cleanup_files(files, t.files_to_clean)
  /\ Step(t, [NewTask EXCEPT !.pc = "stop", !.chat = t.chat, !.sid = t.sid,
                             !.media_path = t.media_path,
                             !.media_type = t.media_type,
                             !.caption_text = t.caption_text,
                             !.apply_fade = t.apply_fade])

(* one request of stop_railway_deployment: what was called, with which     *)
(* argument, and what came back                                            *)
Call(op, arg, result) == [op |-> op, arg |-> arg, result |-> result]

(* variant: the stop mutation is posted whatever the query returned *)
stop_railway_deployment_unchecked(t) ==
  /\ t.pc = "stop"
  /\ UNCHANGED files
  /\ \E reset \in {"ok", "failed"}, credentials \in BOOLEAN,
        response \in {"failed", "empty"} \cup DeploymentIds :
        LET notified == <<Call("reset", "None", reset)>>
            deployment_id == response
            fetched == Append(notified, Call("fetch", "None", response))
        IN Step(t, [t EXCEPT
                      !.pc = "done",
                      !.stop = IF ~credentials THEN notified
                               ELSE Append(fetched, Call("stop", deployment_id, "sent"))])

(* finally: stop_railway_deployment().  The worker reset is requested and  *)
(* its failure only logged; without credentials the function returns; the  *)
(* query for the latest deployment fails, returns no edge, or returns an   *)
(* id; only with an id the deploymentStop mutation is posted.  The         *)
(* requests are recorded in the order they are made.                       *)
stop_railway_deployment(t) ==
  /\ t.pc = "stop"
  /\ UNCHANGED files
  /\ \E reset \in {"ok", "failed"}, credentials \in BOOLEAN,
        response \in {"failed", "empty"} \cup DeploymentIds :
        LET notified == <<Call("reset", "None", reset)>>
            deployment_id == response
            fetched == Append(notified, Call("fetch", "None", response))
        IN Step(t, [t EXCEPT
                      !.pc = "done",
                      !.stop = IF ~credentials THEN notified
                               ELSE IF response \notin DeploymentIds THEN fetched
                               ELSE Append(fetched, Call("stop", deployment_id, "sent"))])

IsStopCall(call) == call.op = "stop"

(* the process function returns and the process ends: of its memory only   *)
(* its arguments and the stop request it posted are remembered             *)
task_exit(t) ==
  /\ t.pc = "done"
  /\ UNCHANGED files
  /\ Step(t, [t EXCEPT !.pc = "exited", !.stop = SelectSeq(@, IsStopCall)])

----------------------------------------------------------------------------
Next ==
  \/ Tick
  \/ \E c \in Chats, media \in Media : handle_media_lock(c, media)
  \/ \E m \in Running : handle_media_download(m)
  \/ \E m \in Running : handle_media_del(m)
  \/ \E c \in Chats, txt \in Captions : ReceiveText(c, txt)
  \/ \E c \in Chats : handle_other_messages(c)
  \/ \E m \in Running : handle_text(m)
  \/ \E c \in Chats, apply_fade \in BOOLEAN : handle_fade_choice(c, apply_fade)
  \/ cleanup_stale_sessions
  \/ \E t \in Procs : task_prepare(t)
  \/ \E t \in Procs : task_plan(t)
  \/ \E t \in Procs : task_ffmpeg(t)
  \/ \E t \in Procs : task_extract(t)
  \/ \E t \in Procs : upload_and_process(t)
  \/ \E t \in Procs : task_finally(t)
  \/ \E t \in Procs : stop_railway_deployment(t)
  \/ \E t \in Procs : task_exit(t)

Spec == Init /\ [][Next]_vars

(* The steps the program takes by itself: the worker threads of            *)
(* bot.polling run each handler to its end, the sweeper thread loops, and  *)
(* a started render process runs to its end.  Updates arrive when users    *)
(* send them, and nothing says that they do.                               *)
ProgramStep ==
  \/ \E m \in Running : handle_media_download(m)
  \/ \E m \in Running : handle_media_del(m)
  \/ \E m \in Running : handle_text(m)
  \/ cleanup_stale_sessions
  \/ \E t \in Procs : task_prepare(t)
  \/ \E t \in Procs : task_plan(t)
  \/ \E t \in Procs : task_ffmpeg(t)
  \/ \E t \in Procs : task_extract(t)
  \/ \E t \in Procs : upload_and_process(t)
  \/ \E t \in Procs : task_finally(t)
  \/ \E t \in Procs : stop_railway_deployment(t)
  \/ \E t \in Procs : task_exit(t)

SpecLive == Init /\ [][Next]_vars /\ WF_vars(ProgramStep)

----------------------------------------------------------------------------
(* The sweeper over every shape of the store.  A step of the sweeper       *)
(* depends on user_data, files and the clock alone, so its pre-states are  *)
(* enumerated directly: each chat has no session or a session as           *)
(* handle_media and handle_text leave it, touched at any earlier time,     *)
(* with its media file on disk.                                            *)

Times == {k * SESSION_TIMEOUT : k \in 0 .. MaxTicks}

Downloaded(c, media, ts) ==
  [NoSession EXCEPT !.state = "awaiting_caption", !.timestamp = ts,
                    !.media_path = save_path(c, media.file_id),
                    !.media_type = media.media_type, !.sid = c]

SessionsOf(c, t) ==
  {NoSession}
    \cup {[NoSession EXCEPT !.state = "downloading", !.timestamp = ts, !.sid = c] :
             ts \in {x \in Times : x <= t}}
    \cup {Downloaded(c, media, ts) :
             media \in Media, ts \in {x \in Times : x <= t}}
    \cup {[Downloaded(c, media, ts) EXCEPT !.state = "awaiting_fade_choice",
                                          !.caption_text = txt] :
             media \in Media, ts \in {x \in Times : x <= t}, txt \in Captions}

InitSweep ==
  /\ now \in Times
  /\ user_data \in [Chats -> UNION {SessionsOf(c, now) : c \in Chats}]
  /\ \A c \in Chats : user_data[c] \in SessionsOf(c, now)
  /\ files = {user_data[c].media_path : c \in Chats} \ {NoPath}
  /\ handlers = EmptyBag
  /\ tasks = EmptyBag
  /\ updates = [media |-> 0, text |-> 0, fade |-> 0]
  /\ nextSid = Cardinality(Chats) + 1
  /\ sent = {}
  /\ dlFail = {}
  /\ acc = [c \in Chats |-> NoAcc]
  /\ ev = [c \in Chats |-> NoEv]

NextSweep ==
  \/ Tick
  \/ cleanup_stale_sessions
  \/ \E c \in Chats, media \in Media : handle_media_lock(c, media)

SpecSweep == InitSweep /\ [][NextSweep]_vars

----------------------------------------------------------------------------
(* The render processes on their own.  A render process reads nothing of   *)
(* the bot but its arguments and the disk, so it is started here with      *)
(* every argument tuple handle_fade_choice can pass, alone or next to      *)
(* other render processes (of the same chat or of others).                 *)

Jobs ==
  {StartedTask(c, [Downloaded(c, media, 0) EXCEPT !.caption_text = txt], fade) :
      c \in Chats, media \in Media, txt \in Captions, fade \in BOOLEAN}

BagOfSeq(q) ==
  [x \in {q[i] : i \in DOMAIN q} |-> Cardinality({i \in DOMAIN q : q[i] = x})]

InitRender ==
  /\ tasks \in {BagOfSeq(q) : q \in UNION {[1 .. n -> Jobs] : n \in 1 .. MaxProcs}}
  /\ files = {t.media_path : t \in BagToSet(tasks)}
  /\ user_data = [c \in Chats |-> NoSession]
  /\ now = 0
  /\ handlers = EmptyBag
  /\ updates = [media |-> 0, text |-> 0, fade |-> 0]
  /\ nextSid = Cardinality(Chats) + 1
  /\ sent = {}
  /\ dlFail = {}
  /\ acc = [c \in Chats |-> NoAcc]
  /\ ev = [c \in Chats |-> NoEv]

NextRender ==
  \/ \E t \in Procs : task_prepare(t)
  \/ \E t \in Procs : task_plan(t)
  \/ \E t \in Procs : task_ffmpeg(t)
  \/ \E t \in Procs : task_extract(t)
  \/ \E t \in Procs : upload_and_process(t)
  \/ \E t \in Procs : task_finally(t)
  \/ \E t \in Procs : stop_railway_deployment(t)
  \/ \E t \in Procs : task_exit(t)

SpecRender == InitRender /\ [][NextRender]_vars

----------------------------------------------------------------------------
(* The conversation that follows a fade choice.  The bot is taken up in    *)
(* the state handle_fade_choice leaves when it has started a render: the   *)
(* session is popped and the render process is at its first statement.     *)
(* From there the handlers run as in Spec, with the render at its probe.   *)

InitRepeat ==
  /\ \E job \in Jobs :
        /\ tasks = SetToBag({job})
        /\ acc = [c \in Chats |->
                    IF c = job.chat THEN [sid |-> job.sid, n |-> 1] ELSE NoAcc]
  /\ files = {t.media_path : t \in BagToSet(tasks)}
  /\ user_data = [c \in Chats |-> NoSession]
  /\ now = 0
  /\ handlers = EmptyBag
  /\ updates = [media |-> 0, text |-> 0, fade |-> 0]
  /\ nextSid = Cardinality(Chats) + 1
  /\ sent = {}
  /\ dlFail = {}
  /\ ev = [c \in Chats |-> NoEv]

NextRepeat ==
  \/ \E c \in Chats, media \in Media : handle_media_lock(c, media)
  \/ \E m \in Running : handle_media_download(m)
  \/ \E m \in Running : handle_media_del(m)
  \/ \E c \in Chats, txt \in Captions : ReceiveText(c, txt)
  \/ \E c \in Chats : handle_other_messages(c)
  \/ \E m \in Running : handle_text(m)
  \/ \E c \in Chats, apply_fade \in BOOLEAN : handle_fade_choice(c, apply_fade)
  \/ \E t \in Procs : task_prepare(t)

SpecRepeat == InitRepeat /\ [][NextRepeat]_vars

(* The render processes left to themselves.  Every blocking call of a      *)
(* render has a timeout (ffprobe 30 s, the compositor 300 s, the frame     *)
(* extraction 30 s, the upload 60 s, the three requests of                 *)
(* stop_railway_deployment 10 s and 15 s), so a render that can take a     *)
(* step takes one.                                                         *)
SpecRenderLive == InitRender /\ [][NextRender]_vars /\ WF_vars(NextRender)

----------------------------------------------------------------------------
(* The planner on its own.  It is a function of the probe result, the      *)
(* caption height and the arguments of the process, so a process is placed *)
(* right after its probe and caption image with every combination of them. *)

InitPlan ==
  /\ \E job \in Jobs, w \in Widths, h \in Heights, d \in Durations,
        lines \in 1 .. MaxLines :
        tasks = SetToBag({
          [job EXCEPT !.pc = "plan",
                      !.media_w = w,
                      !.media_h = h,
                      !.final_duration =
                         IF job.media_type = "image" THEN IMAGE_DURATION ELSE d,
                      !.caption_height = rect_height(lines),
                      !.files_to_clean = @ \cup {caption_image_path(job.chat)},
                      !.made = {caption_image_path(job.chat)}]})
  /\ files = UNION {t.files_to_clean : t \in BagToSet(tasks)}
  /\ user_data = [c \in Chats |-> NoSession]
  /\ now = 0
  /\ handlers = EmptyBag
  /\ updates = [media |-> 0, text |-> 0, fade |-> 0]
  /\ nextSid = Cardinality(Chats) + 1
  /\ sent = {}
  /\ dlFail = {}
  /\ acc = [c \in Chats |-> NoAcc]
  /\ ev = [c \in Chats |-> NoEv]

NextPlan == \E t \in Procs : task_plan(t)

SpecPlan == InitPlan /\ [][NextPlan]_vars

----------------------------------------------------------------------------
(* Vocabulary of the properties *)

CountIn(bag, S) == IF S = {} THEN 0 ELSE BagCardinality([x \in S |-> bag[x]])

(* render processes started for session s *)
RendersOf(s) == CountIn(tasks, {t \in Procs : t.sid = s})

(* downloads running for chat c *)
DownloadsInFlight(c) ==
  CountIn(handlers, {m \in Running : m.kind = "media" /\ m.chat = c /\ m.pc = "download"})

(* a render of chat c has been started and has not reached its finally *)
RenderInProgress(c) ==
  \E t \in Procs :
     t.chat = c /\ t.pc \in {"probe", "plan", "ffmpeg", "extract", "upload"}

IsMediaFile(p) == p[1] = "downloads"

(* the planner of render t has run and its command is still in use *)
Planned(t) == t.pc \in {"ffmpeg", "extract", "upload", "finally"} /\ t.map_args # << >>

(* the streams of the three inputs of the compositor command *)
InputPads == {"0:v", "1:v", "2:v", "1:a"}

(* how often label l is consumed: by an input of a stage or by a -map *)
Consumptions(g, m, l) ==
  Cardinality({p \in (DOMAIN g) \X (1 .. 2) :
                 /\ p[2] \in DOMAIN g[p[1]].ins
                 /\ g[p[1]].ins[p[2]] = l})
    + Cardinality({k \in DOMAIN m : m[k] = l})

(* graph g with output mappings m: every label is defined once, after      *)
(* that consumed once, and nothing undefined is consumed                   *)
WellFormed(g, m) ==
  /\ \A i, j \in DOMAIN g : i # j => g[i].out # g[j].out
  /\ \A i \in DOMAIN g :
        /\ g[i].out \notin InputPads
        /\ Len(g[i].ins) <= 2
        /\ Consumptions(g, m, g[i].out) = 1
        /\ \A k \in DOMAIN g[i].ins :
              g[i].ins[k] \notin InputPads
                 => \E j \in 1 .. (i - 1) : g[j].out = g[i].ins[k]
        /\ \A j \in 1 .. i : \A k \in DOMAIN g[j].ins : g[j].ins[k] # g[i].out
  /\ \A k \in DOMAIN m : \E j \in DOMAIN g : g[j].out = m[k]

(* the run of stop_railway_deployment of render t posted the stop request *)
PostsStop(t) == \E i \in DOMAIN t.stop : t.stop[i].op = "stop"

(* stop requests posted so far *)
StopRequests == CountIn(tasks, {t \in Procs : PostsStop(t)})

(* this step is the run of stop_railway_deployment of render t, and it     *)
(* posts the stop request                                                  *)
StopPostedBy(t) ==
  /\ stop_railway_deployment(t)
  /\ \E u \in BagToSet(tasks') : tasks' = Replace(tasks, t, u) /\ PostsStop(u)

(* renders started and not yet through their stop_railway_deployment *)
LiveRenders == CountIn(tasks, {t \in Procs : t.pc \notin {"done", "exited"}})

(* p is the media file of a stored session, of a render that has not yet   *)
(* cleaned up, or of a media handler that is still running                 *)
Referenced(p) ==
  \/ \E c \in Chats : user_data[c].media_path = p
  \/ \E t \in Procs : t.media_path = p /\ t.pc \notin {"stop", "done", "exited"}
  \/ \E m \in Running : m.kind = "media" /\ save_path(m.chat, m.file_id) = p

----------------------------------------------------------------------------
(* C1: once a session was in awaiting_fade_choice and two fade-choice      *)
(* signals have been handled for it, exactly one render process has been   *)
(* started for that session.                                               *)
C1_ExactlyOneRender ==
  \A c \in Chats : acc[c].n >= 2 => RendersOf(acc[c].sid) = 1

(* C2: a step of handle_text changes a session only if that session is in  *)
(* awaiting_caption when the step is taken, and text dispatched to the     *)
(* catch-all handler changes no session.                                   *)
C2_CaptionOnlyWhenAwaiting ==
  [][/\ \A m \in Running :
          (handle_text(m) /\ user_data'[m.chat] # user_data[m.chat])
             => user_data[m.chat].state = "awaiting_caption"
     /\ \A c \in Chats : handle_other_messages(c) => UNCHANGED user_data]_vars

(* C3: media for a chat whose session is downloading gets the busy reply   *)
(* and changes neither the store, the files nor the running handlers; and  *)
(* at most one download per chat is running at any time.                   *)
C3_BusyGuard ==
  /\ [](\A c \in Chats : DownloadsInFlight(c) <= 1)
  /\ [][\A c \in Chats, media \in Media :
          (handle_media_lock(c, media) /\ user_data[c].state = "downloading")
             => /\ UNCHANGED <<user_data, files, handlers>>
                /\ <<c, "busy">> \in sent']_vars

(* C4: media for a chat whose render is in progress gets the busy reply    *)
(* and starts no new session.                                              *)
C4_BusyWhileRendering ==
  [][\A c \in Chats, media \in Media :
       (handle_media_lock(c, media) /\ RenderInProgress(c))
          => /\ UNCHANGED user_data
             /\ <<c, "busy">> \in sent']_vars

(* C5: a sweep removes exactly the sessions older than SESSION_TIMEOUT,    *)
(* whatever their state, and deletes their media files; it leaves every    *)
(* other session and its media file alone; and media sent for a chat after *)
(* its session was evicted is accepted and starts a fresh session.         *)
C5_SweepEvicts ==
  [][/\ cleanup_stale_sessions =>
          \A c \in Chats :
             IF user_data[c] # NoSession
                /\ now - user_data[c].timestamp > SESSION_TIMEOUT
             THEN /\ user_data'[c] = NoSession
                  /\ user_data[c].media_path \notin files'
             ELSE /\ user_data'[c] = user_data[c]
                  /\ user_data[c].media_path \in files
                        => user_data[c].media_path \in files'
     /\ \A c \in Chats, media \in Media :
          (handle_media_lock(c, media) /\ ev[c].state # "none" /\ ~ev[c].fresh)
             => user_data'[c] = [NoSession EXCEPT !.state = "downloading",
                                                  !.timestamp = now,
                                                  !.sid = nextSid]]_vars

(* a session holding a media file was evicted by the sweeper and media     *)
(* sent afterwards for the same chat started a fresh session               *)
C5_Witness ==
  \E c \in Chats : /\ ev[c].state = "awaiting_caption"
                   /\ ev[c].fresh
                   /\ user_data[c].state = "downloading"
                   /\ save_path(c, "f1") \notin files
                   /\ save_path(c, "f2") \notin files

(* C6: once the handler of a failed download has ended, the session it     *)
(* created is no longer in the store.                                      *)
C6_FailedDownloadRemovesSession ==
  \A c \in Chats : user_data[c] # NoSession => user_data[c].sid \notin dlFail

(* C7: when the finally block of a render has run, neither the input media *)
(* file nor any file the render produced is on disk.                       *)
C7_NoLeftoverFiles ==
  [][\A t \in Procs :
       task_finally(t) => ({t.media_path} \cup t.made) \cap files' = {}]_vars

(* C8: every media file on disk is the media file of a stored session, of  *)
(* a render that has not yet cleaned up, or of a running media handler.    *)
C8_NoOrphanMedia ==
  \A p \in files : IsMediaFile(p) => Referenced(p)

(* C9: a render whose compositor run exited non-zero or timed out has no   *)
(* frame extraction, no submission and no success or progress status.      *)
C9_FailedRenderNotDelivered ==
  \A t \in Procs :
     t.ffmpeg \in {"nonzero", "timeout"}
        => /\ t.frame = "none"
           /\ t.upload = "none"
           /\ t.msgs \cap {"success", "preparing"} = {}

(* a render whose compositor timed out has reached its finally block *)
C9_Witness ==
  \E t \in Procs : t.ffmpeg = "timeout" /\ t.pc = "finally"

(* C10: a frame is only ever extracted from the rendered output file of    *)
(* a successful compositor run, and a submission is made only with the     *)
(* frame so extracted; a failed extraction is followed by no submission.   *)
C10_FrameFromRenderedOutput ==
  \A t \in Procs :
     /\ t.frame # "none" => /\ t.ffmpeg = "ok"
                            /\ t.frame_src = output_filepath(t.chat)
                            /\ t.frame_src # t.media_path
     /\ t.upload # "none" => /\ t.frame = "ok"
                             /\ t.sub_frame = frame_path(t.chat)
     /\ t.frame = "failed" => t.upload = "none"

(* a render was submitted with its frame and has reached its finally block *)
C10_Witness ==
  \E t \in Procs : t.upload = "ok" /\ t.pc = "finally"

(* messages of a render that tell the user it failed *)
ErrorMessages == {"ffmpeg_error", "unexpected", "not_prepared", "upload_failed"}

(* C11: a render that reaches its finally block without a successful       *)
(* submission has sent an error message, and after a compositor failure    *)
(* (non-zero exit or timeout) that message is the compositor message and   *)
(* carries the end of the error stream, SNIPPET_LEN characters at most;    *)
(* an accepted fade choice that starts no render sends a message to the    *)
(* chat; and a session ended by a failed download has its chat told.       *)
C11_ErrorsReported ==
  /\ [](\A t \in Procs :
          t.pc = "finally" =>
             /\ t.upload # "ok" => t.msgs \cap ErrorMessages # {}
             /\ t.ffmpeg \in {"nonzero", "timeout"} =>
                   /\ "ffmpeg_error" \in t.msgs
                   /\ t.error_snippet.text \in {"stderr", "No stderr output."}
                   /\ t.error_snippet.text = "stderr" =>
                         /\ t.error_snippet.last = t.stderr.last
                         /\ StrLen(t.error_snippet) =
                              (IF StrLen(t.stderr) > SNIPPET_LEN
                               THEN SNIPPET_LEN ELSE StrLen(t.stderr)))
  /\ [][/\ \A c \in Chats, apply_fade \in BOOLEAN :
            (/\ handle_fade_choice(c, apply_fade)
             /\ user_data[c].state = "awaiting_fade_choice"
             /\ tasks' = tasks)
               => \E msg \in {"expired", "busy", "dl_error", "start_error"} :
                     <<c, msg>> \in sent' \ sent
        /\ \A m \in Running :
            (/\ handle_media_download(m) \/ handle_media_del(m)
             /\ user_data[m.chat].sid = m.sid
             /\ user_data'[m.chat] = NoSession)
               => <<m.chat, "dl_error">> \in sent']_vars

(* C12: in the requests a run of stop_railway_deployment has made, a stop  *)
(* request comes only after a query for the latest deployment that         *)
(* returned an id, and is posted with exactly that id; a run whose query   *)
(* returned an id has posted the stop request, whether or not the worker   *)
(* reset before it succeeded.                                              *)
C12_StopOnlyWithFetchedId ==
  \A t \in Procs :
     t.pc = "done" =>
        /\ \A i \in DOMAIN t.stop :
              t.stop[i].op = "stop" =>
                 \E j \in 1 .. (i - 1) : /\ t.stop[j].op = "fetch"
                                        /\ t.stop[j].result \in DeploymentIds
                                        /\ t.stop[i].arg = t.stop[j].result
        /\ \A j \in DOMAIN t.stop :
              (t.stop[j].op = "fetch" /\ t.stop[j].result \in DeploymentIds)
                 => \E i \in (j + 1) .. Len(t.stop) : t.stop[i].op = "stop"
        /\ Cardinality({i \in DOMAIN t.stop : t.stop[i].op = "stop"}) <= 1

(* the worker reset failed, the query returned an id and the stop request  *)
(* was posted with it                                                      *)
C12_Witness ==
  \E t \in Procs : /\ t.pc = "done"
                   /\ Len(t.stop) = 3
                   /\ t.stop[1] = Call("reset", "None", "failed")
                   /\ t.stop[2] = Call("fetch", "None", "d2")
                   /\ t.stop[3] = Call("stop", "d2", "sent")

(* C13: the process posts at most one stop request in its lifetime, and    *)
(* when it posts one no work is left: no download is running, no session   *)
(* is waiting in the store, and no other render is unfinished.             *)
C13_OneShutdownAfterAllWork ==
  /\ [](StopRequests <= 1)
  /\ [][\A t \in Procs :
          StopPostedBy(t) => /\ \A c \in Chats : DownloadsInFlight(c) = 0
                             /\ \A c \in Chats : user_data[c] = NoSession
                             /\ LiveRenders = 1]_vars

(* C14: a process that is never given an update nevertheless posts a stop  *)
(* request at some time.                                                   *)
C14_ColdStartShutsDown ==
  <>(StopRequests > 0 \/ updates # [media |-> 0, text |-> 0, fade |-> 0])

(* C15: whatever the fade flag and the media kind, the filter graph built  *)
(* defines each label once, consumes each defined label exactly once, in   *)
(* a later stage or in an output mapping, and consumes no label that is    *)
(* not defined before.                                                     *)
C15_SingleConsumerLabels ==
  \A t \in Procs : Planned(t) => WellFormed(t.filter_complex, t.map_args)

(* the graph of a video with fade: six stages, two output mappings *)
C15_Witness ==
  \E t \in Procs : /\ Planned(t)
                   /\ t.apply_fade /\ t.media_type = "video"
                   /\ Len(t.filter_complex) = 6 /\ Len(t.map_args) = 2

(* C16: the graph with fade and the graph without, for the same media,     *)
(* caption and canvas, have the same first stage and the same stages from  *)
(* the background overlay on; the graph with fade has in between the black *)
(* cover and its overlay on the media, whose label is what the background  *)
(* overlay takes instead; in both the media is placed at media_y_pos and   *)
(* the caption at media_y_pos - caption_height + 1 (half pixels).          *)
C16_FadeChangesMediaLayerOnly ==
  \A t \in Procs :
     Planned(t) =>
        LET built(fade) ==
              filter_complex(t.media_type,
                             filter_parts(fade, t.scaled_media_h, t.final_duration,
                                          t.media_y_pos, t.caption_y_pos))
            on == IF t.apply_fade THEN t.filter_complex ELSE built(TRUE)
            off == IF t.apply_fade THEN built(FALSE) ELSE t.filter_complex
        IN /\ Len(on) = Len(off) + 2
           /\ on[1] = off[1]
           /\ on[2].out = "fade_layer" /\ on[2].ins = << >>
           /\ on[3].ins = <<off[1].out, on[2].out>>
           /\ on[4] = [off[2] EXCEPT !.ins[2] = on[3].out]
           /\ off[2].ins = <<"0:v", off[1].out>>
           /\ \A i \in 3 .. Len(off) : on[i + 2] = off[i]
           /\ off[2].args = <<t.media_y_pos>>
           /\ off[3].args = <<t.media_y_pos - 2 * t.caption_height + 2>>

(* a graph with fade was built *)
C16_Witness ==
  \E t \in Procs : /\ Planned(t) /\ t.apply_fade
                   /\ Len(t.filter_complex) >= 5
                   /\ t.filter_complex[5].args = <<t.caption_y_pos>>

(* C17: the planned scaled_media_h is an integer nearest to                *)
(* media_h * COMP_WIDTH / media_w, media_y_pos is computed from it, and    *)
(* the fade cover is scaled_media_h + 1 high.                              *)
C17_ScaledHeightRounded ==
  \A t \in Procs :
     Planned(t) =>
        LET diff == t.scaled_media_h * t.media_w - t.media_h * COMP_WIDTH
            dist == IF diff < 0 THEN -diff ELSE diff
        IN /\ 2 * dist <= t.media_w
           /\ t.media_y_pos = COMP_HEIGHT - t.scaled_media_h + 2 * MEDIA_Y_OFFSET
           /\ t.apply_fade => t.filter_complex[2].args[2] = t.scaled_media_h + 1

(* C18: a session in awaiting_caption or awaiting_fade_choice has its      *)
(* media path and media kind stored, and a session in awaiting_fade_choice *)
(* has its caption text as well, so that an accepted fade choice always    *)
(* finds all three.                                                        *)
C18_SessionsComplete ==
  \A c \in Chats :
     /\ user_data[c].state \in {"awaiting_caption", "awaiting_fade_choice"}
           => /\ user_data[c].media_path # NoPath
              /\ user_data[c].media_type # "None"
     /\ user_data[c].state = "awaiting_fade_choice"
           => user_data[c].caption_text # "None"

(* renders of chat c that have not yet run their cleanup *)
RendersRunning(c) ==
  CountIn(tasks, {t \in Procs : t.chat = c /\ t.pc \notin {"stop", "done", "exited"}})

(* C19: at no time are two renders of the same chat running, that is,      *)
(* started and not yet through their cleanup.                              *)
C19_OneRenderPerChat ==
  \A c \in Chats : RendersRunning(c) <= 1

(* chat c has a session in the store that a shutdown of the node discards *)
SessionAtStake(c) ==
  user_data[c].state \in {"downloading", "awaiting_caption", "awaiting_fade_choice"}

(* C20: when a render posts the stop request, no other render of the node  *)
(* is still running and no other chat has a session in downloading,        *)
(* awaiting_caption or awaiting_fade_choice.                               *)
C20_NoShutdownUnderOthers ==
  [][\A t \in Procs :
       StopPostedBy(t) =>
         /\ LiveRenders = 1
         /\ \A c \in Chats \ {t.chat} : ~SessionAtStake(c)]_vars

(* stop requests posted by render t *)
StopCalls(t) == Len(SelectSeq(t.stop, IsStopCall))

(* render t is through its finally block *)
Finished(t) == t.pc \in {"done", "exited"}

(* this step is a step of render t, which it leaves as u *)
Becomes(t, u) == u # t /\ tasks' = Replace(tasks, t, u)

(* a render reaches its shutdown only from its finally block and by the    *)
(* step that runs cleanup_files, which leaves none of its files behind     *)
CleanupFirst ==
  \A t \in Procs : \A u \in BagToSet(tasks') :
     (Becomes(t, u) /\ u.pc = "stop")
        => /\ t.pc = "finally"
           /\ files' \cap t.files_to_clean = {}
           /\ t.media_path \notin files'

(* the shutdown is run by a render that has cleaned up, and the media file *)
(* it was started with is gone by then                                     *)
ShutdownAfterCleanup ==
  \A t \in Procs : \A u \in BagToSet(tasks') :
     (Becomes(t, u) /\ t.stop = << >> /\ u.stop # << >>)
        => /\ t.pc = "stop"
           /\ stop_railway_deployment(t)
           /\ t.media_path \notin files

(* a render that is through its shutdown only returns: it changes no file, *)
(* sends nothing and posts nothing more                                    *)
NothingAfterShutdown ==
  \A t \in Procs : \A u \in BagToSet(tasks') :
     (Becomes(t, u) /\ Finished(t))
        => /\ task_exit(t)
           /\ u.pc = "exited"
           /\ StopCalls(u) = StopCalls(t)
           /\ files' = files /\ sent' = sent

(* every render that was started gets through its finally block *)
EveryRenderFinishes == <>(\A t \in Procs : Finished(t))

(* C21: every render that was started, however it ends, runs cleanup_files *)
(* and then posts exactly one stop request; the shutdown is never run      *)
(* before the cleanup, and the render takes no step after it but its       *)
(* return.                                                                 *)
C21_CleanupThenOneShutdown ==
  /\ [](\A t \in Procs : Finished(t) => StopCalls(t) = 1)
  /\ [][CleanupFirst /\ ShutdownAfterCleanup /\ NothingAfterShutdown]_vars
  /\ EveryRenderFinishes

(* C21, as the program has it: every render that was started, however it   *)
(* ends, runs cleanup_files and then runs stop_railway_deployment once,     *)
(* which posts at most one stop request: exactly one when the credentials   *)
(* are set and the query returned a deployment id, none otherwise.  The     *)
(* shutdown is never run before the cleanup, and the render takes no step   *)
(* after it but its return.                                                 *)
C21_CleanupThenShutdownRoutine ==
  /\ [](\A t \in Procs :
          /\ StopCalls(t) <= 1
          /\ t.pc = "done" =>
                /\ t.stop # << >> /\ t.stop[1].op = "reset"
                /\ StopCalls(t) = 1 <=>
                      \E i \in DOMAIN t.stop :
                         t.stop[i].op = "fetch" /\ t.stop[i].result \in DeploymentIds)
  /\ [][CleanupFirst /\ ShutdownAfterCleanup /\ NothingAfterShutdown]_vars
  /\ EveryRenderFinishes

(* a render has cleaned up, run its shutdown with the stop request posted, *)
(* and returned                                                            *)
C21_Witness ==
  \E t \in Procs : /\ t.pc = "exited"
                   /\ StopCalls(t) = 1
                   /\ t.media_path \notin files

====
